---- MODULE Spec2Model ----
(***************************************************************************)
(* bambutler: restore hard-clipped reads of aligned BAM files from the     *)
(* unaligned BAM file (src/src/lib.rs, src/src/main.rs).                   *)
(*                                                                         *)
(* Four specifications share this module:                                 *)
(*   SpecAux    TagValue::from_aux / TagValue::to_aux on one Aux value     *)
(*   SpecCigar  convert_cigar on one raw CIGAR                             *)
(*   Spec       main with one aligned file: create_read_index, then        *)
(*              process_bam_file record by record                          *)
(*   SpecMain   main with several aligned files processed in parallel      *)
(*                                                                         *)
(* The BAM container (rust_htslib) is outside the repository.  A record is *)
(* modelled by its decoded fields; the data block that process_bam_file    *)
(* assembles (name, NUL, CIGAR words, sequence, qualities) is modelled by  *)
(* the fields it is built from.  Reading and writing a file are taken to   *)
(* succeed; a task fails when its path has no file name or a push_aux is   *)
(* refused.                                                                *)
(***************************************************************************)
EXTENDS Integers, Sequences, FiniteSets, TLC

VARIABLES
    aux_in, tag_value, aux_out, aux_pc,          \* SpecAux
    cigar_in, cigar_out, cigar_pc,               \* SpecCigar
    unaligned_bam, aligned_bams, transfer_tags,  \* main: the command line and the files
    main_pc, unaligned_index, totals,            \* main: position, index, summed stats
    pc, stats, found, output_path,               \* process_bam_file, one per task
    last                                         \* the loop iteration completed last

auxVars   == <<aux_in, tag_value, aux_out, aux_pc>>
cigarVars == <<cigar_in, cigar_out, cigar_pc>>
mainVars  == <<unaligned_bam, aligned_bams, transfer_tags, main_pc, unaligned_index,
               totals, pc, stats, found, output_path, last>>
vars      == <<auxVars, cigarVars, mainVars>>

(***************************************************************************)
(* Bounds of the model.                                                    *)
(***************************************************************************)
MaxCigarLen  == 2   \* operations of a CIGAR given to convert_cigar (SpecCigar)
MaxRecords   == 2   \* records read from one aligned file
MaxUnaligned == 1   \* records of the unaligned file
MaxFiles     == 2   \* aligned files given on the command line (SpecMain)

(***************************************************************************)
(* Option<T>                                                               *)
(***************************************************************************)
None == [some |-> FALSE]

Some(x) == [some |-> TRUE, value |-> x]

(***************************************************************************)
(* rust_htslib's Aux: a kind (type code, width, signedness) and a payload. *)
(* A scalar's payload is an integer; a string's or an array's payload is a *)
(* sequence of integers.  Floats stand for their bit patterns.             *)
(***************************************************************************)
Aux(kind, val) == [kind |-> kind, val |-> val]

\* The Aux variants TagValue has a variant for (lib.rs 29-42).
MatchedKinds ==
    {"I8", "U8", "I16", "U16", "I32", "U32", "Float", "String",
     "ArrayI32", "ArrayU32", "ArrayI8", "ArrayU8", "ArrayI16", "ArrayU16"}

\* The Aux variants that fall to the `_ => None` arm (lib.rs 43).
UnmatchedKinds == {"Char", "Double", "HexByteArray", "ArrayFloat"}

AuxKinds == MatchedKinds \cup UnmatchedKinds

ScalarValues(kind) ==
    CASE kind = "I8"     -> {-128, -1, 127}
      [] kind = "U8"     -> {0, 200, 255}
      [] kind = "I16"    -> {-32768, -1, 32767}
      [] kind = "U16"    -> {0, 40000, 65535}
      [] kind = "I32"    -> {-2147483647, -1, 2147483647}
      [] kind = "U32"    -> {0, 255, 2147483647}
      [] kind = "Float"  -> {0, 1, 2}
      [] kind = "Double" -> {0, 1}
      [] kind = "Char"   -> {65, 66}
      [] OTHER           -> {}

ArrayValues(kind) ==
    CASE kind = "String"       -> {<< >>, <<65>>, <<65, 66>>}
      [] kind = "HexByteArray" -> {<<49, 70>>}
      [] kind = "ArrayI8"      -> {<< >>, <<-128, 127>>, <<1, 2, 3>>}
      [] kind = "ArrayU8"      -> {<< >>, <<0, 255>>, <<1, 2, 3>>}
      [] kind = "ArrayI16"     -> {<< >>, <<-32768, 32767>>, <<1, 2, 3>>}
      [] kind = "ArrayU16"     -> {<< >>, <<0, 65535>>, <<1, 2, 3>>}
      [] kind = "ArrayI32"     -> {<< >>, <<-2147483647, 2147483647>>, <<1, 2, 3>>}
      [] kind = "ArrayU32"     -> {<< >>, <<0, 2147483647>>, <<1, 2, 3>>}
      [] kind = "ArrayFloat"   -> {<< >>, <<1>>, <<1, 2, 3>>}
      [] OTHER                 -> {}

AuxValues ==
    UNION {{Aux(k, v) : v \in ScalarValues(k) \cup ArrayValues(k)} : k \in AuxKinds}

(***************************************************************************)
(* TagValue (lib.rs 9-24): one variant per encoded width and signedness.   *)
(***************************************************************************)
TagValue(variant, v) == [variant |-> variant, v |-> v]

VariantOf(kind) ==
    CASE kind = "I8"       -> "Int8"
      [] kind = "U8"       -> "UInt8"
      [] kind = "I16"      -> "Int16"
      [] kind = "U16"      -> "UInt16"
      [] kind = "I32"      -> "Int32"
      [] kind = "U32"      -> "UInt32"
      [] kind = "Float"    -> "Float"
      [] kind = "String"   -> "String"
      [] kind = "ArrayI32" -> "IntArray"
      [] kind = "ArrayU32" -> "UIntArray"
      [] kind = "ArrayI8"  -> "Int8Array"
      [] kind = "ArrayU8"  -> "UInt8Array"
      [] kind = "ArrayI16" -> "Int16Array"
      [] kind = "ArrayU16" -> "UInt16Array"

\* TagValue::from_aux (lib.rs 27-45)
from_aux(aux) ==
    IF aux.kind \in MatchedKinds
    THEN Some(TagValue(VariantOf(aux.kind), aux.val))
    ELSE None

\* A to_aux that re-encodes every 8-bit array as B:C, bytes reinterpreted.
to_aux_unsigned_bytes(tv) ==
    CASE tv.variant = "Int8"        -> Aux("I8", tv.v)
      [] tv.variant = "UInt8"       -> Aux("U8", tv.v)
      [] tv.variant = "Int16"       -> Aux("I16", tv.v)
      [] tv.variant = "UInt16"      -> Aux("U16", tv.v)
      [] tv.variant = "Int32"       -> Aux("I32", tv.v)
      [] tv.variant = "UInt32"      -> Aux("U32", tv.v)
      [] tv.variant = "Float"       -> Aux("Float", tv.v)
      [] tv.variant = "String"      -> Aux("String", tv.v)
      [] tv.variant = "IntArray"    -> Aux("ArrayI32", tv.v)
      [] tv.variant = "UIntArray"   -> Aux("ArrayU32", tv.v)
      [] tv.variant = "Int8Array"   ->
            Aux("ArrayU8", [i \in 1..Len(tv.v) |-> tv.v[i] % 256])
      [] tv.variant = "UInt8Array"  -> Aux("ArrayU8", tv.v)
      [] tv.variant = "Int16Array"  -> Aux("ArrayI16", tv.v)
      [] tv.variant = "UInt16Array" -> Aux("ArrayU16", tv.v)

\* TagValue::to_aux (lib.rs 47-64)
to_aux(tv) ==
    CASE tv.variant = "Int8"        -> Aux("I8", tv.v)
      [] tv.variant = "UInt8"       -> Aux("U8", tv.v)
      [] tv.variant = "Int16"       -> Aux("I16", tv.v)
      [] tv.variant = "UInt16"      -> Aux("U16", tv.v)
      [] tv.variant = "Int32"       -> Aux("I32", tv.v)
      [] tv.variant = "UInt32"      -> Aux("U32", tv.v)
      [] tv.variant = "Float"       -> Aux("Float", tv.v)
      [] tv.variant = "String"      -> Aux("String", tv.v)
      [] tv.variant = "IntArray"    -> Aux("ArrayI32", tv.v)
      [] tv.variant = "UIntArray"   -> Aux("ArrayU32", tv.v)
      [] tv.variant = "Int8Array"   -> Aux("ArrayI8", tv.v)
      [] tv.variant = "UInt8Array"  -> Aux("ArrayU8", tv.v)
      [] tv.variant = "Int16Array"  -> Aux("ArrayI16", tv.v)
      [] tv.variant = "UInt16Array" -> Aux("ArrayU16", tv.v)

(***************************************************************************)
(* Raw CIGAR words.  The container packs an operation as                   *)
(* (length << 4) | code; RawOp builds the inputs that way.                 *)
(***************************************************************************)
BAM_CSOFT_CLIP == 4
BAM_CHARD_CLIP == 5

RawOp(code, len) == len * 16 + code

OpCode(op) == op % 16

OpLength(op) == op \div 16

\* convert_cigar (lib.rs 133-146).  op >> 4 is op \div 16, op & 0xf is op % 16,
\* (4 << 4) | op_len is 4 * 16 + op_len since op_len < 16.
convert_cigar(cigar) ==
    [i \in 1..Len(cigar) |->
        LET op      == cigar[i]
            op_type == op \div 16
            op_len  == op % 16
        IN  IF op_type = BAM_CHARD_CLIP
            THEN BAM_CSOFT_CLIP * 16 + op_len
            ELSE op]

\* process_bam_file's test for hard clips (lib.rs 181-184)
has_hard_clips(cigar) ==
    \E i \in 1..Len(cigar) : (cigar[i] \div 16) = BAM_CHARD_CLIP

SeqsUpTo(S, n) == UNION {[1..k -> S] : k \in 0..n}

(***************************************************************************)
(* Records.  An aligned record carries the fields process_bam_file reads   *)
(* (lib.rs 180-194, 216); an unaligned record the fields create_read_index *)
(* reads (lib.rs 109-125).  A tag list holds (tag, Aux) pairs in file      *)
(* order.                                                                  *)
(***************************************************************************)
Tag(tag, aux) == [tag |-> tag, aux |-> aux]

Record(qname, pos, mapq, flags, cigar, seq, qual, tags) ==
    [qname |-> qname, pos |-> pos, mapq |-> mapq, flags |-> flags,
     cigar |-> cigar, seq |-> seq, qual |-> qual, tags |-> tags]

ReadNames == {"R1", "R2"}

\* Bases and qualities of the unaligned (full) read: base i is i % 4.
FullSeq(n) == [i \in 1..n |-> i % 4]

FullQual(n) == [i \in 1..n |-> 30 + (i % 4)]

\* Operations that consume the query: M, I, S, = and X.
QueryLength(cigar) ==
    LET F[i \in 0..Len(cigar)] ==
            IF i = 0 THEN 0
            ELSE F[i - 1] + (IF OpCode(cigar[i]) \in {0, 1, 4, 7, 8}
                             THEN OpLength(cigar[i]) ELSE 0)
    IN  F[Len(cigar)]

LeadingHardClip(cigar) ==
    IF Len(cigar) > 0 /\ OpCode(cigar[1]) = 5 THEN OpLength(cigar[1]) ELSE 0

\* CIGARs of aligned records: an optional clip, a match, an optional hard clip.
LeftClips == {<< >>, <<RawOp(4, 2)>>, <<RawOp(5, 2)>>, <<RawOp(5, 5)>>}

Matches == {<<RawOp(0, 5)>>, <<RawOp(0, 6)>>}

RightClips == {<< >>, <<RawOp(5, 2)>>}

RecordCigars == {l \o m \o r : l \in LeftClips, m \in Matches, r \in RightClips}

\* The aligner stored the bases the hard clips left: those after the leading clip.
AlignedSeq(cigar) ==
    [i \in 1..QueryLength(cigar) |-> (i + LeadingHardClip(cigar)) % 4]

AlignedQual(cigar) == [i \in 1..QueryLength(cigar) |-> 10]

AlignedTagLists ==
    {<< >>,
     <<Tag("mv", Aux("ArrayU8", <<9, 9>>)), Tag("XC", Aux("Char", 65))>>}

AlignedRecords ==
    {Record(n, 100, 60, 16, c, AlignedSeq(c), AlignedQual(c), t) :
        n \in ReadNames, c \in RecordCigars, t \in AlignedTagLists}

UnalignedTagLists ==
    {<<Tag("mv", Aux("ArrayU8", <<1, 2, 3>>)), Tag("ts", Aux("I32", 5))>>,
     <<Tag("mv", Aux("ArrayFloat", <<1>>)), Tag("ts", Aux("U16", 40000)),
       Tag("ts", Aux("I8", -1))>>}

UnalignedRecords ==
    {Record("R1", -1, 0, 4, << >>, FullSeq(n), FullQual(n), t) :
        n \in {7, 8}, t \in UnalignedTagLists}

UnalignedFiles == SeqsUpTo(UnalignedRecords, MaxUnaligned)

\* --transfer-tags: the default "" gives one empty name.
TransferLists == {<<"">>, <<"mv">>, <<"ts", "mv">>, <<"mv", "mvx", "mv">>}

(***************************************************************************)
(* UnalignedRead and the index (lib.rs 67-84, 101-130)                     *)
(***************************************************************************)
UnalignedRead(sequence, qualities, tags) ==
    [sequence |-> sequence, qualities |-> qualities, tags |-> tags]

\* The filter_map of lib.rs 112-119: a tag from_aux has no variant for is dropped.
RECURSIVE index_tags(_)
index_tags(tags) ==
    IF tags = << >> THEN << >>
    ELSE LET t == from_aux(Head(tags).aux)
         IN  (IF t.some THEN <<[tag |-> Head(tags).tag, value |-> t.value]>> ELSE << >>)
             \o index_tags(Tail(tags))

\* create_read_index: insert record by record, a later record replacing an
\* earlier one of the same name.
create_read_index(file) ==
    [n \in {file[i].qname : i \in 1..Len(file)} |->
        LET i == CHOOSE j \in 1..Len(file) :
                    /\ file[j].qname = n
                    /\ \A k \in 1..Len(file) : file[k].qname = n => k <= j
        IN  UnalignedRead(file[i].seq, file[i].qual, index_tags(file[i].tags))]

\* UnalignedRead::has_tag (lib.rs 75-77)
has_tag(unaligned, tag_name) ==
    \E i \in 1..Len(unaligned.tags) : unaligned.tags[i].tag = tag_name

\* UnalignedRead::get_tag_value (lib.rs 79-83): the first occurrence.
get_tag_value(unaligned, tag_name) ==
    IF has_tag(unaligned, tag_name)
    THEN LET i == CHOOSE j \in 1..Len(unaligned.tags) :
                    /\ unaligned.tags[j].tag = tag_name
                    /\ \A k \in 1..(j - 1) : unaligned.tags[k].tag # tag_name
         IN  Some(unaligned.tags[i].value)
    ELSE None

(***************************************************************************)
(* The container's record operations used by process_bam_file.             *)
(***************************************************************************)
\* Record::aux(tag).is_ok(): the record carries the tag.
aux_is_ok(tags, tag) == \E i \in 1..Len(tags) : tags[i].tag = tag

Ok(tags) == [ok |-> TRUE, tags |-> tags]

Err == [ok |-> FALSE]

\* Record::push_aux: appends, and refuses a tag the record already carries.
push_aux(res, tag, aux) ==
    IF ~res.ok THEN res
    ELSE IF aux_is_ok(res.tags, tag) THEN Err
    ELSE Ok(Append(res.tags, Tag(tag, aux)))

(***************************************************************************)
(* process_bam_file, the body of the loop (lib.rs 180-244)                 *)
(***************************************************************************)
\* lib.rs 197-202: the CIGAR of the new record.
new_cigar(buffer) ==
    IF has_hard_clips(buffer.cigar) THEN convert_cigar(buffer.cigar) ELSE buffer.cigar

\* lib.rs 216-220: every tag of the aligned record is pushed, in order.
RECURSIVE push_original_tags(_, _)
push_original_tags(res, tags) ==
    IF tags = << >> THEN res
    ELSE push_original_tags(push_aux(res, Head(tags).tag, Head(tags).aux), Tail(tags))

\* lib.rs 223-236: a listed tag is pushed when its name has two bytes, the
\* unaligned read has it and the aligned record does not.
RECURSIVE push_transfer_tags(_, _, _, _)
push_transfer_tags(res, names, unaligned, buffer) ==
    IF names = << >> THEN res
    ELSE LET tag_name == Head(names)
             value    == get_tag_value(unaligned, tag_name)
             next     == IF /\ Len(tag_name) = 2
                            /\ has_tag(unaligned, tag_name)
                            /\ ~aux_is_ok(buffer.tags, tag_name)
                            /\ value.some
                         THEN push_aux(res, tag_name, to_aux(value.value))
                         ELSE res
         IN  push_transfer_tags(next, Tail(names), unaligned, buffer)

\* A new_tags that gives the unaligned read's listed tags precedence: they are
\* taken first, and the aligned record's tags of other names follow.
new_tags_unaligned_first(buffer, unaligned, names) ==
    LET Listed(n) == Len(n) = 2 /\ has_tag(unaligned, n)
        moved     == SelectSeq(names, Listed)
        Other(e)  == \A i \in DOMAIN moved : moved[i] # e.tag
    IN  Ok([i \in DOMAIN moved |->
               Tag(moved[i], to_aux(get_tag_value(unaligned, moved[i]).value))]
           \o SelectSeq(buffer.tags, Other))

\* lib.rs 188-236: the tags of the new record, or the error of a push_aux.
new_tags(buffer, unaligned, names) ==
    push_transfer_tags(push_original_tags(Ok(<< >>), buffer.tags), names, unaligned, buffer)

\* lib.rs 188-213: the new record of a read the index holds.
new_record(buffer, unaligned, tags) ==
    Record(buffer.qname, buffer.pos, buffer.mapq, buffer.flags,
           new_cigar(buffer), unaligned.sequence, unaligned.qualities, tags)

\* Stats (lib.rs 86-97)
NewStats == [reads_processed |-> 0, reads_modified |-> 0, reads_missing |-> 0]

\* A count_record that counts every record as missing, found or not.
count_record_always_missing(s, buffer, index) ==
    [reads_processed |-> s.reads_processed + 1,
     reads_modified  |-> IF buffer.qname \in DOMAIN index /\ has_hard_clips(buffer.cigar)
                         THEN s.reads_modified + 1 ELSE s.reads_modified,
     reads_missing   |-> s.reads_missing + 1]

\* lib.rs 174, 198, 241: the counters after one record.
count_record(s, buffer, index) ==
    [reads_processed |-> s.reads_processed + 1,
     reads_modified  |-> IF buffer.qname \in DOMAIN index /\ has_hard_clips(buffer.cigar)
                         THEN s.reads_modified + 1 ELSE s.reads_modified,
     reads_missing   |-> IF buffer.qname \in DOMAIN index
                         THEN s.reads_missing ELSE s.reads_missing + 1]

\* A missing_record that converts the CIGAR of a read the index does not hold.
missing_record_converted(buffer) == [buffer EXCEPT !.cigar = convert_cigar(@)]

\* lib.rs 242: the record written for a read the index does not hold.
missing_record(buffer) == buffer

(***************************************************************************)
(* Paths.  A path is a directory and a file name; a file name is a         *)
(* sequence of pieces, ".bam" being one piece, so that replacing every     *)
(* ".bam" is replacing every such piece.  An empty file name stands for a  *)
(* path file_name() has no name for (one ending in "..").                  *)
(***************************************************************************)
Path(dir, name) == [dir |-> dir, name |-> name]

OutputDir == "out"

InputPaths ==
    {Path(d, <<"x", ".bam">>) : d \in {"a", "b"}}
        \cup {Path("a", <<"y", ".bam">>), Path("a", << >>)}

\* str::replace(".bam", "_converted.bam") (lib.rs 164)
RECURSIVE replace_bam(_)
replace_bam(name) ==
    IF name = << >> THEN << >>
    ELSE (IF Head(name) = ".bam" THEN <<"_converted", ".bam">> ELSE <<Head(name)>>)
         \o replace_bam(Tail(name))

\* lib.rs 159-165: the output path, or none without a file name.
output_path_of(input_path) ==
    IF input_path.name = << >> THEN None
    ELSE Some(Path(OutputDir, replace_bam(input_path.name)))

(***************************************************************************)
(* main (main.rs 30-58) and its tasks                                      *)
(***************************************************************************)
Tasks == DOMAIN aligned_bams

NoEvent == [task |-> 0]

Event(t, buffer, written) == [task |-> t, buffer |-> buffer, written |-> written]

\* main.rs 38
CreateIndex ==
    /\ main_pc = "index"
    /\ unaligned_index' = create_read_index(unaligned_bam)
    /\ main_pc' = "par"
    /\ UNCHANGED <<auxVars, cigarVars, unaligned_bam, aligned_bams, transfer_tags,
                   totals, pc, stats, found, output_path, last>>

\* lib.rs 155-170: the output path is derived and the writer created.
Open(t) ==
    /\ main_pc = "par"
    /\ pc[t] = "start"
    /\ LET p == output_path_of(aligned_bams[t])
       IN  /\ output_path' = [output_path EXCEPT ![t] = p]
           /\ pc' = [pc EXCEPT ![t] = IF p.some THEN "loop" ELSE "failed"]
    /\ UNCHANGED <<auxVars, cigarVars, unaligned_bam, aligned_bams, transfer_tags,
                   main_pc, unaligned_index, totals, stats, found, last>>

\* lib.rs 172-245: one iteration of the loop, on the record read.
ProcessRecord(t) ==
    /\ main_pc = "par"
    /\ pc[t] = "loop"
    /\ stats[t].reads_processed < MaxRecords
    /\ \E buffer \in AlignedRecords :
          LET is_found == buffer.qname \in DOMAIN unaligned_index
              tags     == IF is_found
                          THEN new_tags(buffer, unaligned_index[buffer.qname], transfer_tags)
                          ELSE Ok(buffer.tags)
              written  == IF ~is_found THEN Some(missing_record(buffer))
                          ELSE IF tags.ok
                          THEN Some(new_record(buffer, unaligned_index[buffer.qname],
                                               tags.tags))
                          ELSE None
          IN  /\ stats' = [stats EXCEPT ![t] = count_record(@, buffer, unaligned_index)]
              /\ found' = [found EXCEPT ![t] = IF is_found THEN @ + 1 ELSE @]
              /\ pc' = [pc EXCEPT ![t] = IF written.some THEN "loop" ELSE "failed"]
              /\ last' = Event(t, buffer, written)
    /\ UNCHANGED <<auxVars, cigarVars, unaligned_bam, aligned_bams, transfer_tags,
                   main_pc, unaligned_index, totals, output_path>>

\* lib.rs 172, 247-252: the reader is at its end and the Stats are returned.
EndOfFile(t) ==
    /\ main_pc = "par"
    /\ pc[t] = "loop"
    /\ pc' = [pc EXCEPT ![t] = "done"]
    /\ UNCHANGED <<auxVars, cigarVars, unaligned_bam, aligned_bams, transfer_tags,
                   main_pc, unaligned_index, totals, stats, found, output_path, last>>

Sum(f) ==
    LET F[i \in 0..Len(f)] == IF i = 0 THEN 0 ELSE F[i - 1] + f[i]
    IN  F[Len(f)]

\* main.rs 47-57: every task returned its Stats and they are summed.
Aggregate ==
    /\ main_pc = "par"
    /\ \A t \in Tasks : pc[t] = "done"
    /\ totals' = [reads_processed |-> Sum([t \in Tasks |-> stats[t].reads_processed]),
                  reads_modified  |-> Sum([t \in Tasks |-> stats[t].reads_modified]),
                  reads_missing   |-> Sum([t \in Tasks |-> stats[t].reads_missing])]
    /\ main_pc' = "done"
    /\ UNCHANGED <<auxVars, cigarVars, unaligned_bam, aligned_bams, transfer_tags,
                   unaligned_index, pc, stats, found, output_path, last>>

\* main.rs 41-47: a task returned an error, and main returns it once no task runs.
Abort ==
    /\ main_pc = "par"
    /\ \E t \in Tasks : pc[t] = "failed"
    /\ \A t \in Tasks : pc[t] # "loop"
    /\ main_pc' = "failed"
    /\ UNCHANGED <<auxVars, cigarVars, unaligned_bam, aligned_bams, transfer_tags,
                   unaligned_index, totals, pc, stats, found, output_path, last>>

IdleAux == aux_in = None /\ tag_value = None /\ aux_out = None /\ aux_pc = "idle"

IdleCigar == cigar_in = << >> /\ cigar_out = << >> /\ cigar_pc = "idle"

IdleMain ==
    /\ unaligned_bam = << >> /\ aligned_bams = << >> /\ transfer_tags = << >>
    /\ main_pc = "idle" /\ unaligned_index = << >> /\ totals = NewStats
    /\ pc = << >> /\ stats = << >> /\ found = << >> /\ output_path = << >>
    /\ last = NoEvent

\* The state main starts the tasks from, for the aligned files given.
StartMain(paths) ==
    /\ aligned_bams = paths
    /\ main_pc = "index"
    /\ unaligned_index = << >>
    /\ totals = NewStats
    /\ pc = [t \in DOMAIN paths |-> "start"]
    /\ stats = [t \in DOMAIN paths |-> NewStats]
    /\ found = [t \in DOMAIN paths |-> 0]
    /\ output_path = [t \in DOMAIN paths |-> None]
    /\ last = NoEvent

Init ==
    /\ IdleAux /\ IdleCigar
    /\ unaligned_bam \in UnalignedFiles
    /\ transfer_tags \in TransferLists
    /\ StartMain(<<Path("a", <<"x", ".bam">>)>>)

Next ==
    \/ CreateIndex
    \/ \E t \in Tasks : Open(t)
    \/ \E t \in Tasks : ProcessRecord(t)
    \/ \E t \in Tasks : EndOfFile(t)
    \/ Aggregate
    \/ Abort

Spec == Init /\ [][Next]_vars

(***************************************************************************)
(* main over several aligned files (main.rs 41-44): distinct paths, one    *)
(* index, one output directory, the tasks interleaved record by record.    *)
(***************************************************************************)
Distinct(paths) ==
    \A i, j \in DOMAIN paths : i # j => paths[i] # paths[j]

PathLists ==
    {paths \in UNION {[1..k -> InputPaths] : k \in 2..MaxFiles} : Distinct(paths)}

InitMain ==
    /\ IdleAux /\ IdleCigar
    /\ unaligned_bam = <<Record("R1", -1, 0, 4, << >>, FullSeq(8), FullQual(8),
                                <<Tag("mv", Aux("ArrayU8", <<1, 2, 3>>))>>)>>
    /\ transfer_tags = <<"mv">>
    /\ \E paths \in PathLists : StartMain(paths)

SpecMain == InitMain /\ [][Next]_vars

(***************************************************************************)
(* convert_cigar on its own: a CIGAR is drawn and converted.               *)
(***************************************************************************)
CigarOps == {RawOp(code, len) : code \in {0, 1, 4, 5}, len \in {2, 5, 21}}

Cigars == SeqsUpTo(CigarOps, MaxCigarLen)

InitCigar ==
    /\ IdleAux /\ IdleMain
    /\ cigar_in \in Cigars
    /\ cigar_out = << >>
    /\ cigar_pc = "start"

Convert ==
    /\ cigar_pc = "start"
    /\ cigar_out' = convert_cigar(cigar_in)
    /\ cigar_pc' = "converted"
    /\ UNCHANGED <<auxVars, mainVars, cigar_in>>

NextCigar == Convert

SpecCigar == InitCigar /\ [][NextCigar]_vars

(***************************************************************************)
(* TagValue on its own: an Aux value is decoded and encoded again.         *)
(***************************************************************************)
InitAux ==
    /\ IdleCigar /\ IdleMain
    /\ aux_in \in AuxValues
    /\ tag_value = None
    /\ aux_out = None
    /\ aux_pc = "start"

Decode ==
    /\ aux_pc = "start"
    /\ tag_value' = from_aux(aux_in)
    /\ aux_pc' = "decoded"
    /\ UNCHANGED <<cigarVars, mainVars, aux_in, aux_out>>

Encode ==
    /\ aux_pc = "decoded"
    /\ tag_value.some
    /\ aux_out' = Some(to_aux(tag_value.value))
    /\ aux_pc' = "encoded"
    /\ UNCHANGED <<cigarVars, mainVars, aux_in, tag_value>>

NextAux == Decode \/ Encode

SpecAux == InitAux /\ [][NextAux]_vars

(***************************************************************************)
(* What the claims speak of                                                *)
(***************************************************************************)
\* The container's reading of a raw operation: code in the low 4 bits.
IsHardClip(op) == OpCode(op) = 5

HasHardClip(cigar) == \E i \in 1..Len(cigar) : IsHardClip(cigar[i])

\* Every hard clip turned into a soft clip of the same length, the rest kept.
HardToSoft(cigar) ==
    [i \in 1..Len(cigar) |->
        IF IsHardClip(cigar[i]) THEN RawOp(4, OpLength(cigar[i])) ELSE cigar[i]]

\* The bases the hard clips of a CIGAR stand for.
HardClipLength(cigar) ==
    LET F[i \in 0..Len(cigar)] ==
            IF i = 0 THEN 0
            ELSE F[i - 1] + (IF OpCode(cigar[i]) = 5 THEN OpLength(cigar[i]) ELSE 0)
    IN  F[Len(cigar)]

\* Task t completed an iteration of its loop in this step.
Iterated(t) ==
    /\ stats'[t].reads_processed = stats[t].reads_processed + 1
    /\ last'.task = t

LastFound == last.task # 0 /\ last.buffer.qname \in DOMAIN unaligned_index

LastMissing == last.task # 0 /\ last.buffer.qname \notin DOMAIN unaligned_index

LastUnaligned == unaligned_index[last.buffer.qname]

Range(f) == {f[i] : i \in DOMAIN f}

\* C1: convert_cigar returns as many operations, in order, every hard clip
\* become a soft clip of the same length and every other operation as given.
C1_ConvertCigarHardToSoft ==
    cigar_pc = "converted" => cigar_out = HardToSoft(cigar_in)

\* C2: a record found in the index whose CIGAR has a hard clip counts once as
\* modified and is written with every hard clip a soft clip of the same length.
C2_FoundHardClipRewritten ==
    [][\A t \in Tasks :
          (/\ Iterated(t)
           /\ last'.buffer.qname \in DOMAIN unaligned_index
           /\ HasHardClip(last'.buffer.cigar))
          => /\ stats'[t].reads_modified = stats[t].reads_modified + 1
             /\ last'.written.some
                  => last'.written.value.cigar = HardToSoft(last'.buffer.cigar)]_vars

\* C3: a record found in the index whose CIGAR has no hard clip is written
\* with its CIGAR as read and is not counted as modified.
C3_FoundNoHardClipKept ==
    [][\A t \in Tasks :
          (/\ Iterated(t)
           /\ last'.buffer.qname \in DOMAIN unaligned_index
           /\ ~HasHardClip(last'.buffer.cigar))
          => /\ stats'[t].reads_modified = stats[t].reads_modified
             /\ last'.written.some
                  => last'.written.value.cigar = last'.buffer.cigar]_vars

C5_AlignedTagsTakePrecedence ==
    (LastFound /\ last.written.some) =>
        LET out == last.written.value.tags
            own == last.buffer.tags
        IN  /\ \A i \in DOMAIN own : \E j \in DOMAIN out : out[j] = own[i]
            /\ \A j \in DOMAIN out :
                  IF \E i \in DOMAIN own : own[i].tag = out[j].tag
                  THEN \E i \in DOMAIN own : own[i] = out[j]
                  ELSE /\ out[j].tag \in Range(transfer_tags)
                       /\ \E k \in DOMAIN LastUnaligned.tags :
                             /\ LastUnaligned.tags[k].tag = out[j].tag
                             /\ out[j].aux.kind \in MatchedKinds
                             /\ VariantOf(out[j].aux.kind) = LastUnaligned.tags[k].value.variant
                             /\ out[j].aux.val = LastUnaligned.tags[k].value.v

\* A found record carrying mv kept its own mv and took ts from the unaligned read.
C5_Witness ==
    /\ LastFound
    /\ last.written.some
    /\ \E i \in DOMAIN last.buffer.tags : last.buffer.tags[i].tag = "mv"
    /\ \E k \in DOMAIN LastUnaligned.tags : LastUnaligned.tags[k].tag = "mv"
    /\ "mv" \in Range(transfer_tags)
    /\ \E j \in DOMAIN last.written.value.tags :
          /\ last.written.value.tags[j].tag = "ts"
          /\ last.written.value.tags[j].aux = Aux("I32", 5)
    /\ \E j \in DOMAIN last.written.value.tags :
          last.written.value.tags[j] = Tag("mv", Aux("ArrayU8", <<9, 9>>))

StatsConsistent ==
    \A t \in Tasks :
        /\ stats[t].reads_modified <= stats[t].reads_processed
        /\ stats[t].reads_missing + found[t] = stats[t].reads_processed

\* C6: after every record and in the Stats returned, reads_modified is at
\* most reads_processed, reads_missing plus the records found is
\* reads_processed, and no counter decreases.
C6_CountersConsistent ==
    /\ StatsConsistent
    /\ [][/\ StatsConsistent'
          /\ \A t \in Tasks :
                /\ stats'[t].reads_processed >= stats[t].reads_processed
                /\ stats'[t].reads_modified >= stats[t].reads_modified
                /\ stats'[t].reads_missing >= stats[t].reads_missing]_vars

\* A file of a found, modified record and a missing one has been processed.
C6_Witness ==
    /\ main_pc = "done"
    /\ totals.reads_processed = 2
    /\ totals.reads_modified = 1
    /\ totals.reads_missing = 1
    /\ found[1] = 1

\* C7: no record written has a hard clip in its CIGAR.  Stated here of the
\* records written for reads the index holds: a read it does not hold is
\* written as read (C4), hard clips included.
C7_NoHardClipWritten ==
    (LastFound /\ last.written.some) => ~HasHardClip(last.written.value.cigar)

\* C8: when the unaligned sequence is as long as the aligned sequence plus
\* its hard clips, the record written has the unaligned sequence, qualities
\* of that length and a CIGAR consuming exactly that many bases.
C8_CigarConsumesSequence ==
    (/\ LastFound
     /\ last.written.some
     /\ Len(LastUnaligned.sequence)
          = Len(last.buffer.seq) + HardClipLength(last.buffer.cigar))
    => /\ last.written.value.seq = LastUnaligned.sequence
       /\ Len(last.written.value.qual) = Len(last.written.value.seq)
       /\ QueryLength(last.written.value.cigar) = Len(last.written.value.seq)

\* The encodings C9 names: the integers, float, string, every numeric array.
ClaimedKinds ==
    {"I8", "U8", "I16", "U16", "I32", "U32", "Float", "String",
     "ArrayI8", "ArrayU8", "ArrayI16", "ArrayU16", "ArrayI32", "ArrayU32",
     "ArrayFloat"}

C10_OutputPathsDisjoint ==
    /\ \A t, u \in Tasks :
          (t # u /\ output_path[t].some /\ output_path[u].some)
          => output_path[t] # output_path[u]
    /\ main_pc \in {"par", "done", "failed"}
          => unaligned_index = create_read_index(unaligned_bam)

====
